---- MODULE Spec2Model ----
(***************************************************************************)
(* Model of TransmittalListMakerRev1.py: the BOM filter that reconciles a  *)
(* bill-of-materials spreadsheet against the PDF files of a directory.     *)
(*                                                                         *)
(* Strings are TLA+ strings; SubSeq, Len and \o act on them character by   *)
(* character.  A spreadsheet (DataFrame) is a record of its column names   *)
(* and its rows, each row a function from column name to cell value.       *)
(* One run of filter_bom_with_pdf_list is a sequence of steps, one per     *)
(* interaction with the file system, with the pure pandas/set computation  *)
(* of lines 81-150 between reading the spreadsheet and writing the output. *)
(* The exceptions of a run are those its inputs cause: a directory that    *)
(* cannot be listed, a spreadsheet that cannot be read or lacks a column,  *)
(* and the division of line 173.  Writing and removing files succeeds.     *)
(***************************************************************************)
EXTENDS Integers, Sequences, FiniteSets, TLC

\* Bounds of the explored inputs.
MaxDirEntries == 3
MaxRows == 3

-----------------------------------------------------------------------------
(* Python string primitives used by the program *)

startswith(s, prefix) ==
    Len(s) >= Len(prefix) /\ SubSeq(s, 1, Len(prefix)) = prefix

endswith(s, suffix) ==
    Len(s) >= Len(suffix) /\ SubSeq(s, Len(s) - Len(suffix) + 1, Len(s)) = suffix

\* s[n:]
slice_from(s, n) == SubSeq(s, n + 1, Len(s))

\* s[:n]
slice_to(s, n) == SubSeq(s, 1, n)

\* str.lower() on one character, for the upper-case letters of the model's alphabet
lower_char(c) ==
    CASE c = "P" -> "p"
      [] c = "D" -> "d"
      [] c = "F" -> "f"
      [] c = "V" -> "v"
      [] c = "G" -> "g"
      [] OTHER -> c

RECURSIVE lower(_)
lower(s) ==
    IF s = "" THEN ""
    ELSE lower_char(slice_to(s, 1)) \o lower(slice_from(s, 1))

\* s.replace(ch, '') for a one-character ch
RECURSIVE replace_char(_, _)
replace_char(s, ch) ==
    IF s = "" THEN ""
    ELSE (IF slice_to(s, 1) = ch THEN "" ELSE slice_to(s, 1))
         \o replace_char(slice_from(s, 1), ch)

IsSpace(c) == c \in {" ", "\t", "\n", "\r", "\f"}

RECURSIVE lstrip(_)
lstrip(s) ==
    IF s # "" /\ IsSpace(slice_to(s, 1)) THEN lstrip(slice_from(s, 1)) ELSE s

RECURSIVE rstrip(_)
rstrip(s) ==
    IF s # "" /\ IsSpace(slice_from(s, Len(s) - 1))
    THEN rstrip(slice_to(s, Len(s) - 1))
    ELSE s

\* str.strip()
strip(s) == rstrip(lstrip(s))

\* str(n) for a non-negative integer
RECURSIVE str_int(_)
str_int(n) ==
    LET digit == SubSeq("0123456789", (n % 10) + 1, (n % 10) + 1)
    IN IF n < 10 THEN digit ELSE str_int(n \div 10) \o digit

\* position (1-based) of the last "." of s, 0 when there is none: s.rfind('.') + 1
RECURSIVE rfind_dot(_)
rfind_dot(s) ==
    IF s = "" THEN 0
    ELSE IF slice_from(s, Len(s) - 1) = "." THEN Len(s)
    ELSE rfind_dot(slice_to(s, Len(s) - 1))

\* os.path.splitext(item)[0] for a name without directory separators: the
\* extension starts at the last dot, unless only dots precede that dot.
splitext_root(item) ==
    LET dot == rfind_dot(item)
    IN IF dot > 0 /\ \E i \in 1..(dot - 1) : SubSeq(item, i, i) # "."
       THEN slice_to(item, dot - 1)
       ELSE item

-----------------------------------------------------------------------------
(* Cells and frames *)

StrCell(t) == [kind |-> "str", text |-> t, num |-> 0]
IntCell(n) == [kind |-> "int", text |-> "", num |-> n]
NaN == [kind |-> "nan", text |-> "", num |-> 0]

\* pd.isna(part_no)
isna(cell) == cell.kind = "nan"

\* str(part_no)
str_cell(cell) == IF cell.kind = "int" THEN str_int(cell.num) ELSE cell.text

PART == "PART No."
DESC == "DESCRIPTION"
QTY == "QTY"
NORM == "Normalized_Part_No"

EmptyFrame == [columns |-> <<>>, rows |-> <<>>]

Range(seq) == {seq[i] : i \in DOMAIN seq}

\* df[mask]: the rows whose mask entry is True, in order
RECURSIVE boolean_index(_, _)
boolean_index(rows, mask) ==
    IF rows = <<>> THEN <<>>
    ELSE (IF Head(mask) THEN <<Head(rows)>> ELSE <<>>)
         \o boolean_index(Tail(rows), Tail(mask))

RECURSIVE without(_, _)
without(cols, c) ==
    IF cols = <<>> THEN <<>>
    ELSE (IF Head(cols) = c THEN <<>> ELSE <<Head(cols)>>) \o without(Tail(cols), c)

\* df.drop(columns=[c])
drop_column(frame, c) ==
    [columns |-> without(frame.columns, c),
     rows |-> [i \in DOMAIN frame.rows |->
                 [k \in (DOMAIN frame.rows[i]) \ {c} |-> frame.rows[i][k]]]]

\* df[[c1, c2]].copy()
select_columns(frame, cols) ==
    [columns |-> cols,
     rows |-> [i \in DOMAIN frame.rows |->
                 [k \in Range(cols) |-> frame.rows[i][k]]]]

-----------------------------------------------------------------------------
(* get_pdf_file_list *)

\* One directory entry passes the test of line 23.
is_pdf_file(entry) == entry.isfile /\ endswith(lower(entry.name), ".pdf")

\* Lines 17-31: the names of the PDF files, in listing order, without their
\* extension; an unreadable directory raises in os.listdir and yields [].
RECURSIVE pdf_names(_)
pdf_names(entries) ==
    IF entries = <<>> THEN <<>>
    ELSE (IF is_pdf_file(Head(entries))
          THEN <<splitext_root(Head(entries).name)>>
          ELSE <<>>)
         \o pdf_names(Tail(entries))

get_pdf_file_list(directory) ==
    IF directory.readable THEN pdf_names(directory.entries) ELSE <<>>

-----------------------------------------------------------------------------
(* The pure stages of filter_bom_with_pdf_list *)

\* Variant of no_pdf_files: a test for None, which an empty list never passes
no_pdf_files_is_none(files) == FALSE

\* Line 49: "if not pdf_files"
no_pdf_files(files) == files = <<>>

\* Variant of parts_for: "if" without "else", the prefixed form is always added
parts_for_no_else(part) ==
    {part, "VG-" \o part} \cup (IF startswith(part, "VG-")
                                THEN {slice_from(part, 3)}
                                ELSE {})

\* Lines 82-90: one identifier's contribution to all_parts_to_keep
parts_for(part) ==
    {part} \cup (IF startswith(part, "VG-")
                 THEN {slice_from(part, 3)}
                 ELSE {"VG-" \o part})

build_keep_set(files) == UNION {parts_for(files[i]) : i \in DOMAIN files}

\* Lines 93-96
normalize_part_number(part_no) ==
    IF isna(part_no) THEN ""
    ELSE strip(replace_char(replace_char(str_cell(part_no), "\r"), "\n"))

\* Line 99: df['Normalized_Part_No'] = df['PART No.'].apply(normalize_part_number)
add_normalized(frame) ==
    [columns |-> Append(frame.columns, NORM),
     rows |-> [i \in DOMAIN frame.rows |->
                 frame.rows[i] @@ (NORM :> normalize_part_number(frame.rows[i][PART]))]]

\* Line 102
part_number_set(frame) == {frame.rows[i][NORM] : i \in DOMAIN frame.rows}

\* Lines 108-112: the test that puts one identifier in missing_parts
is_missing(part, excel_numbers) ==
    /\ part \notin excel_numbers
    /\ (~startswith(part, "VG-") \/ slice_from(part, 3) \notin excel_numbers)
    /\ (~startswith(part, "VG-") \/ ("VG-" \o part) \notin excel_numbers)

\* Lines 105-113
RECURSIVE find_missing(_, _)
find_missing(files, excel_numbers) ==
    IF files = <<>> THEN <<>>
    ELSE (IF is_missing(Head(files), excel_numbers) THEN <<Head(files)>> ELSE <<>>)
         \o find_missing(Tail(files), excel_numbers)

\* Variant of first_of_key: keep='last'
last_of_key(rows, i) == \A j \in (i + 1)..Len(rows) : rows[j][NORM] # rows[i][NORM]

\* Line 117: rows whose key already occurred in an earlier row are dropped
first_of_key(rows, i) == \A j \in 1..(i - 1) : rows[j][NORM] # rows[i][NORM]

drop_duplicates(frame) ==
    [columns |-> frame.columns,
     rows |-> boolean_index(frame.rows,
                            [i \in DOMAIN frame.rows |-> first_of_key(frame.rows, i)])]

\* Variant of should_keep_row: the direct match alone
should_keep_row_direct(part_no, keep) == part_no # "" /\ part_no \in keep

\* Lines 122-137
should_keep_row(part_no, keep) ==
    /\ part_no # ""
    /\ \E keep_part \in keep :
          \/ part_no = keep_part
          \/ startswith(part_no, "VG-") /\ slice_from(part_no, 3) = keep_part

\* Lines 140-143
filter_rows(frame, keep) ==
    drop_column(
        [columns |-> frame.columns,
         rows |-> boolean_index(frame.rows,
                                [i \in DOMAIN frame.rows |->
                                    should_keep_row(frame.rows[i][NORM], keep)])],
        NORM)

\* Line 150
project(frame) == select_columns(frame, <<PART, DESC>>)

\* Variant of except_return: the list computed so far is handed back
except_return_partial(missing) ==
    [returned |-> TRUE, success |-> FALSE, missing_parts |-> missing]

\* Lines 179-181: what the except clause returns
except_return(missing) == [returned |-> TRUE, success |-> FALSE, missing_parts |-> <<>>]

\* Variant of remove_temp: the file is left in place
remove_temp_skipped(file) == file

\* Lines 163-164: os.remove on the temporary file
remove_temp(file) == <<>>

\* Line 173 divides by original_row_count
percentage_raises(original_row_count) == original_row_count = 0

-----------------------------------------------------------------------------
(* The environment: directories and spreadsheets a run can meet *)

File(name) == [name |-> name, isfile |-> TRUE]
Subdir(name) == [name |-> name, isfile |-> FALSE]

DirPool ==
    {File("100.pdf"), File("100.PDF"), File("VG-100.pdf"), File("200.pdf"),
     File("notes.txt"), Subdir("old.pdf")}

SeqsUpTo(S, n) == UNION {[1..k -> S] : k \in 0..n}

Injective(seq) == \A i, j \in DOMAIN seq : i # j => seq[i] # seq[j]

\* A directory is the sequence of its entries in the order os.listdir gives
\* them (names are unique in a directory), or it cannot be read.
Directories ==
    {[readable |-> TRUE, entries |-> e] :
        e \in {q \in SeqsUpTo(DirPool, MaxDirEntries) : Injective(q)}}
    \cup {[readable |-> FALSE, entries |-> <<>>]}

Row(part, desc) == (PART :> part) @@ (DESC :> desc) @@ (QTY :> "1")

RowPool ==
    {Row(StrCell("100"), "BOLT"),
     Row(StrCell(" 1\r\n00\n"), "NUT"),
     Row(StrCell("VG-200"), "PLATE"),
     Row(IntCell(300), "WASHER"),
     Row(StrCell("VG-VG-100"), "SHIM"),
     Row(NaN, "NOTE")}

FullSheets ==
    {[columns |-> <<PART, DESC, QTY>>, rows |-> r] : r \in SeqsUpTo(RowPool, MaxRows)}

\* Spreadsheets that lack one of the two columns the program asks for.
ShortSheets ==
    {drop_column(sh, c) : sh \in {f \in FullSheets : Len(f.rows) <= 1}, c \in {PART, DESC}}

Spreadsheets == FullSheets \cup ShortSheets

\* Files left in the spreadsheet's directory by earlier runs.
StaleJson == [filenames |-> <<"OLD">>, total_count |-> 1]
StaleOutput == [columns |-> <<PART, DESC>>, rows |-> <<>>]

-----------------------------------------------------------------------------
(* State *)

VARIABLES
    pc,                  \* position in filter_bom_with_pdf_list
    fs_temp,             \* temp_pdf_list.json: <<>> when absent, <<content>> when present
    fs_out,              \* the FILTERED_ file: <<>> when absent, <<frame>> when present
    pdf_files, df, original_row_count, all_parts_to_keep, excel_part_numbers,
    missing_parts, df_no_dupes, filtered_df, simplified_df,   \* the locals
    ret,                 \* the returned pair
    raised_in,           \* the step whose exception reached the except clause
    wroteTemp, wroteOut, readExcel   \* what this run has done to the files

vars == <<pc, fs_temp, fs_out, pdf_files, df, original_row_count, all_parts_to_keep,
          excel_part_numbers, missing_parts, df_no_dupes, filtered_df, simplified_df,
          ret, raised_in, wroteTemp, wroteOut, readExcel>>

locals == <<df, original_row_count, all_parts_to_keep, excel_part_numbers,
            missing_parts, df_no_dupes, filtered_df, simplified_df>>

Init ==
    /\ pc = "start"
    /\ \E used \in BOOLEAN :
          /\ fs_temp = IF used THEN <<StaleJson>> ELSE <<>>
          /\ fs_out = IF used THEN <<StaleOutput>> ELSE <<>>
    /\ pdf_files = <<>>
    /\ df = EmptyFrame
    /\ original_row_count = 0
    /\ all_parts_to_keep = {}
    /\ excel_part_numbers = {}
    /\ missing_parts = <<>>
    /\ df_no_dupes = EmptyFrame
    /\ filtered_df = EmptyFrame
    /\ simplified_df = EmptyFrame
    /\ ret = [returned |-> FALSE, success |-> FALSE, missing_parts |-> <<>>]
    /\ raised_in = "none"
    /\ wroteTemp = FALSE
    /\ wroteOut = FALSE
    /\ readExcel = FALSE

\* An exception in step `step` reaches the except clause of lines 179-181,
\* with the locals as they were when it was raised.
Raise(step) ==
    /\ raised_in' = step
    /\ ret' = except_return(missing_parts')
    /\ pc' = "done"

\* Lines 45-53
ListPdfs ==
    /\ pc = "start"
    /\ \E directory \in Directories :
          pdf_files' = get_pdf_file_list(directory)
    /\ IF no_pdf_files(pdf_files')
       THEN /\ ret' = [returned |-> TRUE, success |-> FALSE, missing_parts |-> <<>>]
            /\ pc' = "done"
       ELSE /\ pc' = "json"
            /\ ret' = ret
    /\ UNCHANGED <<fs_temp, fs_out, locals, raised_in, wroteTemp, wroteOut, readExcel>>

\* Lines 55-69
SaveTempJson ==
    /\ pc = "json"
    /\ fs_temp' = <<[filenames |-> pdf_files, total_count |-> Len(pdf_files)]>>
    /\ wroteTemp' = TRUE
    /\ pc' = "read"
    /\ UNCHANGED <<fs_out, pdf_files, locals, ret, raised_in, wroteOut, readExcel>>

\* Lines 75-79; pd.read_excel may fail
ReadExcel ==
    /\ pc = "read"
    /\ readExcel' = TRUE
    /\ \/ \E sheet \in Spreadsheets :
             /\ df' = sheet
             /\ original_row_count' = Len(sheet.rows)
             /\ pc' = "transform"
             /\ UNCHANGED <<ret, raised_in, missing_parts>>
       \/ /\ UNCHANGED <<df, original_row_count, missing_parts>>
          /\ Raise("read")
    /\ UNCHANGED <<fs_temp, fs_out, pdf_files, all_parts_to_keep, excel_part_numbers,
                   df_no_dupes, filtered_df, simplified_df, wroteTemp, wroteOut>>

\* Lines 81-151; df['PART No.'] and filtered_df[['PART No.', 'DESCRIPTION']]
\* raise KeyError when the column is absent
Transform ==
    /\ pc = "transform"
    /\ all_parts_to_keep' = build_keep_set(pdf_files)
    /\ IF PART \notin Range(df.columns)
       THEN /\ UNCHANGED <<df, excel_part_numbers, missing_parts, df_no_dupes,
                           filtered_df, simplified_df>>
            /\ Raise("normalize")
       ELSE /\ df' = add_normalized(df)
            /\ excel_part_numbers' = part_number_set(df')
            /\ missing_parts' = find_missing(pdf_files, excel_part_numbers')
            /\ df_no_dupes' = drop_duplicates(df')
            /\ filtered_df' = filter_rows(df_no_dupes', all_parts_to_keep')
            /\ IF DESC \notin Range(df.columns)
               THEN /\ UNCHANGED simplified_df
                    /\ Raise("project")
               ELSE /\ simplified_df' = project(filtered_df')
                    /\ pc' = "write"
                    /\ UNCHANGED <<ret, raised_in>>
    /\ UNCHANGED <<fs_temp, fs_out, pdf_files, original_row_count,
                   wroteTemp, wroteOut, readExcel>>

\* Lines 153-160
WriteOutput ==
    /\ pc = "write"
    /\ fs_out' = <<simplified_df>>
    /\ wroteOut' = TRUE
    /\ pc' = "cleanup"
    /\ UNCHANGED <<fs_temp, pdf_files, locals, ret, raised_in, wroteTemp, readExcel>>

\* Lines 162-165
Cleanup ==
    /\ pc = "cleanup"
    /\ fs_temp' = IF fs_temp # <<>> THEN remove_temp(fs_temp) ELSE fs_temp
    /\ pc' = "summary"
    /\ UNCHANGED <<fs_out, pdf_files, locals, ret, raised_in, wroteTemp, wroteOut,
                   readExcel>>

\* Lines 167-177
Summary ==
    /\ pc = "summary"
    /\ UNCHANGED <<fs_temp, fs_out, pdf_files, locals, wroteTemp, wroteOut, readExcel>>
    /\ IF percentage_raises(original_row_count)
       THEN Raise("summary")
       ELSE /\ ret' = [returned |-> TRUE, success |-> TRUE, missing_parts |-> missing_parts]
            /\ pc' = "done"
            /\ UNCHANGED raised_in

Next ==
    \/ ListPdfs
    \/ SaveTempJson
    \/ ReadExcel
    \/ Transform
    \/ WriteOutput
    \/ Cleanup
    \/ Summary

Spec == Init /\ [][Next]_vars

-----------------------------------------------------------------------------
(* Properties *)

Returned == pc = "done"
Succeeded == pc = "done" /\ ret.success
FailedEmpty == [returned |-> TRUE, success |-> FALSE, missing_parts |-> <<>>]

\* The normalized column exists once line 99 has run.
Normalized == NORM \in Range(df.columns)

Key(i) == df.rows[i][NORM]
BomKeys == {Key(i) : i \in DOMAIN df.rows}

\* The n-th smallest member of a set of indices
Nth(K, n) == CHOOSE i \in K : Cardinality({j \in K : j < i}) = n - 1

\* The rows of df at the indices K, in BOM order, reduced to the two output columns
OutputRowsAt(K) ==
    [n \in 1..Cardinality(K) |->
        (PART :> df.rows[Nth(K, n)][PART]) @@ (DESC :> df.rows[Nth(K, n)][DESC])]

FirstRows == {i \in DOMAIN df.rows : \A j \in 1..(i - 1) : Key(j) # Key(i)}

\* The forms of an identifier the missing report is said to look for
FormsOf(p) ==
    IF startswith(p, "VG-") THEN {p, slice_from(p, 3)} ELSE {p, "VG-" \o p}

\* C1: an identifier is in the returned missing list exactly when none of its
\* forms (itself, without a leading VG-, or with VG- prepended when it has
\* none) is a normalized BOM part number.
C1_MissingIffNoFormInBom ==
    Succeeded =>
        \A i \in DOMAIN pdf_files :
            (pdf_files[i] \in Range(ret.missing_parts))
                <=> (FormsOf(pdf_files[i]) \cap BomKeys = {})

\* The rule of C2 for one normalized part number
KeepRule(k) ==
    /\ k # ""
    /\ \/ k \in all_parts_to_keep
       \/ startswith(k, "VG-") /\ slice_from(k, 3) \in all_parts_to_keep

\* C2: on success the output file holds exactly the first row of each
\* normalized part number that is non-empty and is in the keep-set directly
\* or after removing a leading VG-, in BOM order, with the two output columns.
C2_OutputIsFilteredDedup ==
    Succeeded =>
        fs_out = <<[columns |-> <<PART, DESC>>,
                    rows |-> OutputRowsAt({i \in FirstRows : KeepRule(Key(i))})]>>

\* C2 witness: a successful run that wrote a row kept only through the
\* prefix-stripped comparison and dropped another deduplicated row.
C2_Witness ==
    /\ Succeeded
    /\ \E i \in FirstRows : KeepRule(Key(i)) /\ Key(i) \notin all_parts_to_keep
    /\ \E i \in FirstRows : ~KeepRule(Key(i))

\* C3: every row written differs from some PDF identifier by at most one
\* VG- prefix.
C3_KeptWithinOnePrefix ==
    Succeeded =>
        \A n \in DOMAIN fs_out[1].rows :
            LET k == normalize_part_number(fs_out[1].rows[n][PART])
            IN \E i \in DOMAIN pdf_files :
                  \/ k = pdf_files[i]
                  \/ k = "VG-" \o pdf_files[i]
                  \/ pdf_files[i] = "VG-" \o k

\* C4: deduplication keeps exactly the first row of each normalized part
\* number, in BOM order: no more rows than the input, no key twice, and the
\* surviving row (description included) is the earliest with its key.
C4_DedupKeepsFirst ==
    Normalized =>
        /\ Len(df_no_dupes.rows) <= Len(df.rows)
        /\ \A a, b \in DOMAIN df_no_dupes.rows :
              a # b => df_no_dupes.rows[a][NORM] # df_no_dupes.rows[b][NORM]
        /\ df_no_dupes.rows = [n \in 1..Cardinality(FirstRows) |-> df.rows[Nth(FirstRows, n)]]

\* C4 witness: two rows with the same key and different descriptions went
\* through deduplication.
C4_Witness ==
    /\ Normalized
    /\ \E i, j \in DOMAIN df.rows :
          i < j /\ Key(i) = Key(j) /\ df.rows[i][DESC] # df.rows[j][DESC]

\* C5: with no PDF identifiers the run returns (False, []) and has written
\* neither file nor read the spreadsheet.
C5_NoPdfsFailFast ==
    (Returned /\ pdf_files = <<>>) =>
        /\ ret = FailedEmpty
        /\ ~wroteOut /\ ~wroteTemp /\ ~readExcel
        /\ raised_in = "none"

\* C5 witness: a run over a directory without PDF files has returned, with
\* files of an earlier run still in place.
C5_Witness == Returned /\ pdf_files = <<>> /\ fs_temp = <<StaleJson>> /\ fs_out = <<StaleOutput>>

\* C6: an error raised while loading or transforming the spreadsheet (steps
\* 2 to 8) leaves the output unwritten and returns (False, []).
C6_ErrorLeavesNoOutput ==
    raised_in \in {"read", "normalize", "project"} =>
        /\ Returned
        /\ ret = FailedEmpty
        /\ ~wroteOut

\* C6 witness: the projection raised after a non-empty missing list had been
\* computed.
C6_Witness == raised_in = "project" /\ missing_parts # <<>>

\* C7: a run that loaded a spreadsheet with zero data rows and wrote its
\* output does not fail in the percentage computation: it returns success
\* with its missing list.
C7_ZeroRowsGuarded ==
    (Returned /\ wroteOut /\ original_row_count = 0) =>
        /\ raised_in = "none"
        /\ ret.success
        /\ ret.missing_parts = missing_parts

\* C8: the temporary file is written only for a non-empty PDF list, is gone
\* when a run returns success, and is removed only after the output was
\* written.
C8_TempFileLifecycle ==
    /\ wroteTemp => pdf_files # <<>>
    /\ Succeeded => (wroteTemp /\ fs_temp = <<>>)
    /\ (wroteTemp /\ fs_temp = <<>>) => wroteOut

\* C8 witness: a successful run that wrote and removed the temporary file.
C8_Witness == Succeeded /\ wroteTemp /\ fs_temp = <<>> /\ wroteOut

KeepSetBuilt == all_parts_to_keep # {}

\* C9 as stated: the keep-set has between len(pdf_files) and 2*len(pdf_files)
\* members, repeated identifiers counted.
C9_KeepSetSizeByCount ==
    KeepSetBuilt =>
        /\ Len(pdf_files) <= Cardinality(all_parts_to_keep)
        /\ Cardinality(all_parts_to_keep) <= 2 * Len(pdf_files)

\* C9 amended: the keep-set has between n and 2n members, n the number of
\* distinct PDF identifiers.
C9_KeepSetSizeByDistinct ==
    KeepSetBuilt =>
        /\ Cardinality(Range(pdf_files)) <= Cardinality(all_parts_to_keep)
        /\ Cardinality(all_parts_to_keep) <= 2 * Cardinality(Range(pdf_files))

\* C9 witness: a keep-set built from a list that repeats an identifier and
\* is smaller than the list.
C9_Witness ==
    /\ KeepSetBuilt
    /\ Cardinality(Range(pdf_files)) < Len(pdf_files)
    /\ Cardinality(all_parts_to_keep) < Len(pdf_files)

\* C10: the output file is written by a run exactly when the run returns
\* success.
C10_SuccessIffOutputWritten ==
    Returned => (wroteOut <=> ret.success)

=============================================================================
